---- MODULE Spec2Model ----
(***************************************************************************)
(* Pink differential inverse kinematics: BodyTask (pink/tasks/body_task.py),*)
(* BoundedTangent (pink/bounded_tangent.py) and PositionCBF                *)
(* (pink/barriers/position_barrier.py).                                   *)
(*                                                                         *)
(* Numbers are integers: every quantity of the program that is used here   *)
(* (costs, gains, damping, coordinates, Jacobian entries) is taken on an   *)
(* integer grid, on which the program's floating-point sums and products   *)
(* are exact.                                                              *)
(***************************************************************************)
EXTENDS Integers, Sequences, FiniteSets, TLC

VARIABLES
    body,               \* BodyTask.body
    cost,               \* BodyTask.cost, 6 entries
    error_in_body,      \* BodyTask.error_in_body, 6 entries
    lm_damping,         \* BodyTask.lm_damping
    gain,               \* Task.gain, read by compute_task_dynamics
    transform_target_to_world,  \* BodyTask.transform_target_to_world or None
    robot,              \* the ConfiguredRobot handed to the compute calls
    cost_arg,           \* the argument handed to the last cost setter call
    ret,                \* outcome of the last BodyTask call
    set_target_called,  \* history: set_target has been called
    model,              \* the pin.Model handed to BoundedTangent
    bt,                 \* the BoundedTangent built from model
    bt_ret,             \* outcome of the last BoundedTangent.project call
    cbf,                \* the PositionCBF object
    pos_world,          \* frame position the Configuration reports
    cbf_ret             \* outcome of the last PositionCBF call

taskVars == <<body, cost, error_in_body, lm_damping, gain,
              transform_target_to_world, robot, cost_arg, ret,
              set_target_called>>
btVars == <<model, bt, bt_ret>>
cbfVars == <<cbf, pos_world, cbf_ret>>
vars == <<taskVars, btVars, cbfVars>>

(***************************************************************************)
(* Bounds of the model.                                                    *)
(***************************************************************************)
NV == 2         \* tangent-space dimension of the robots of the task model
MaxCost == 1    \* largest cost entry handed to the cost setters
MaxCoord == 1   \* largest coordinate of a sampled body position

\* Python's None, where a vector or a pose is optional
NoneV == <<>>

(***************************************************************************)
(* numpy helpers, as used by body_task.py.                                 *)
(***************************************************************************)
RECURSIVE SumTo(_, _)
SumTo(f, n) == IF n = 0 THEN 0 ELSE f[n] + SumTo(f, n - 1)

\* u @ v for two vectors
Dot(u, v) == SumTo([k \in 1..Len(u) |-> u[k] * v[k]], Len(u))

\* s * v
Scale(s, v) == [k \in 1..Len(v) |-> s * v[k]]

\* -v
Neg(v) == [k \in 1..Len(v) |-> 0 - v[k]]

\* np.zeros(n), np.ones(n)
Zeros(n) == [k \in 1..n |-> 0]
Ones(n) == [k \in 1..n |-> 1]

\* np.diag(v)
Diag(v) == [r \in 1..Len(v) |-> [c \in 1..Len(v) |-> IF r = c THEN v[r] ELSE 0]]

\* np.eye(n)
Eye(n) == [r \in 1..n |-> [c \in 1..n |-> IF r = c THEN 1 ELSE 0]]

\* A @ B for an (m x p) matrix A and a (p x n) matrix B, both lists of rows
MatMul(A, B, n) ==
    [r \in 1..Len(A) |->
        [c \in 1..n |-> SumTo([k \in 1..Len(B) |-> A[r][k] * B[k][c]], Len(B))]]

\* A @ v
MatVec(A, v) == [r \in 1..Len(A) |-> Dot(A[r], v)]

\* v @ A (a row vector times a matrix with n columns)
VecMat(v, A, n) ==
    [c \in 1..n |-> SumTo([k \in 1..Len(A) |-> v[k] * A[k][c]], Len(A))]

\* A.T for a matrix with n columns
Transpose(A, n) == [c \in 1..n |-> [r \in 1..Len(A) |-> A[r][c]]]

\* A + B
MatAdd(A, B) == [r \in 1..Len(A) |-> [c \in 1..Len(A[r]) |-> A[r][c] + B[r][c]]]

\* s * A
MatScale(s, A) == [r \in 1..Len(A) |-> Scale(s, A[r])]

(***************************************************************************)
(* Cost setters.  An argument is what the signature admits,                *)
(* Union[float, Sequence[float]]: a float scalar or a sequence of floats.  *)
(***************************************************************************)
FloatArg(x) == [kind |-> "float", val |-> x]
SeqArg(s) == [kind |-> "seq", val |-> s]

\* all(cost >= 0.0 for cost in s)
AllNonNegative(s) == \A k \in 1..Len(s) : s[k] >= 0

\* The check at the top of set_position_cost / set_orientation_cost:
\* "ok", or the exception it raises.
CostCheckNoAssert(arg) == "ok"
CostCheck(arg) ==
    IF arg.kind = "float"
    THEN IF arg.val >= 0 THEN "ok" ELSE "AssertionError"
    ELSE IF AllNonNegative(arg.val) THEN "ok" ELSE "AssertionError"

\* Whether numpy broadcasts arg into a slice of three entries
Broadcasts(arg) == arg.kind # "seq" \/ Len(arg.val) \in {1, 3}

\* self.cost[lo : lo + 3] = arg (0-based lo; numpy slice assignment)
AssignSlice(c, lo, arg) ==
    [k \in 1..6 |->
        IF k > lo /\ k <= lo + 3
        THEN IF arg.kind # "seq" THEN arg.val
             ELSE IF Len(arg.val) = 3 THEN arg.val[k - lo] ELSE arg.val[1]
        ELSE c[k]]

\* One cost setter on cost vector c: the exception raised ("ok" if none) and
\* the cost vector it leaves.
SetCostStoresFirst(c, lo, arg) ==
    LET chk == CostCheck(arg)
    IN  IF ~Broadcasts(arg) THEN [status |-> "ValueError", cost |-> c]
        ELSE [status |-> chk, cost |-> AssignSlice(c, lo, arg)]
SetCost(c, lo, arg) ==
    LET chk == CostCheck(arg)
    IN  IF chk # "ok" THEN [status |-> chk, cost |-> c]
        ELSE IF ~Broadcasts(arg) THEN [status |-> "ValueError", cost |-> c]
        ELSE [status |-> "ok", cost |-> AssignSlice(c, lo, arg)]

\* Arguments handed to the cost setters
CostArgs ==
    {FloatArg(x) : x \in -1..MaxCost}
    \cup {SeqArg(sq) : sq \in {<<0, 1, MaxCost>>, <<MaxCost, 0, 0>>, <<1, -1, 0>>,
                             <<MaxCost>>, <<>>, <<1, MaxCost>>, <<-1, 1>>,
                             <<1, 1, 1, 1>>}}

(***************************************************************************)
(* The kinematics the task reads from the robot.  A robot is sampled at a  *)
(* configuration where the body frame is aligned with the world frame: its *)
(* pose is the translation <<x, y, z>>, and its body Jacobian is any       *)
(* 6 x NV matrix.                                                          *)
(***************************************************************************)
Coords == 0..MaxCoord
Poses == {<<x, y, 0>> : x \in Coords, y \in Coords}

\* Columns a body Jacobian is made of: a joint that does not move the body,
\* and joints that translate and rotate it
JacobianColumns ==
    {<<0, 0, 0, 0, 0, 0>>, <<1, 0, 0, 0, 0, 1>>, <<1, -1, 2, 0, 1, 0>>}
Jacobians ==
    {[r \in 1..6 |-> [c \in 1..NV |-> cols[c][r]]] :
        cols \in [1..NV -> JacobianColumns]}
Robots == [J : Jacobians, pose : Poses, nv : {NV}]

\* robot.get_body_jacobian(body)
get_body_jacobian(rb) == rb.J
\* robot.get_transform_body_to_world(body)
get_transform_body_to_world(rb) == rb.pose

\* body_box_minus(Y, X): the body twist from X to Y, log(X^-1 Y); between
\* two poses of identity rotation it is their translation difference.
body_box_minus(Y, X) == <<Y[1] - X[1], Y[2] - X[2], Y[3] - X[3], 0, 0, 0>>

(***************************************************************************)
(* BodyTask computations, as functions of the task's fields.               *)
(***************************************************************************)
\* compute_error_in_body past the target check
ErrorInBody(target, rb) ==
    Neg(body_box_minus(target, get_transform_body_to_world(rb)))

\* compute_task_dynamics: (jacobian_in_body, gain * error_in_body)
TaskDynamics(target, g, rb) ==
    <<get_body_jacobian(rb), Scale(g, ErrorInBody(target, rb))>>

\* mu = self.lm_damping * weighted_error @ weighted_error
LmMuNoSquare(lm, weighted_error) == lm * SumTo(weighted_error, Len(weighted_error))
LmMuNegated(lm, weighted_error) == 0 - Dot(Scale(lm, weighted_error), weighted_error)
LmMu(lm, weighted_error) == Dot(Scale(lm, weighted_error), weighted_error)

\* compute_qp_objective: (H, c)
QpObjective(c6, lm, target, g, rb) ==
    LET dyn == TaskDynamics(target, g, rb)
        jacobian == dyn[1]
        error == dyn[2]
        weight == Diag(c6)
        weighted_jacobian == MatMul(weight, jacobian, rb.nv)
        weighted_error == MatVec(weight, error)
        mu == LmMu(lm, weighted_error)
        eye_tg == Eye(rb.nv)
        H == MatAdd(MatMul(Transpose(weighted_jacobian, rb.nv),
                           weighted_jacobian, rb.nv),
                    MatScale(mu, eye_tg))
        c == VecMat(Neg(weighted_error), weighted_jacobian, rb.nv)
    IN  <<H, c>>

\* raise TargetNotSet(f"no target set for body {self.body}")
TargetNotSetReturnsZero(b) == [status |-> "ok", val |-> Zeros(6)]
TargetNotSet(b) == [status |-> "TargetNotSet", val |-> <<"no target set for body", b>>]

\* The target check of compute_error_in_body
TargetIsNone(target) == target = NoneV

(***************************************************************************)
(* BodyTask: construction and operations.                                  *)
(***************************************************************************)
BodyNames == {"ee_link"}
LmDampings == {-1, 0, 1}
Gains == {0, 2}
\* Targets handed to set_target
Targets == {<<0, 0, 0>>, <<1, 0, 2>>}
\* Robots handed to the compute calls of the task's life cycle: every joint
\* moves the body the same way
SampleRobots ==
    {[J |-> [r \in 1..6 |-> [c \in 1..NV |-> <<1, -1, 2, 0, 1, 0>>[r]]],
      pose |-> <<x, 0, 0>>, nv |-> NV] : x \in {0, 1}}

Ret(op, status, val) == [op |-> op, status |-> status, val |-> val]

\* BodyTask.__init__: the cost vector left by the two setters, run on
\* np.ones(6); construction fails when either raises.
InitCost(position_cost, orientation_cost) ==
    SetCost(SetCost(Ones(6), 0, position_cost).cost, 3, orientation_cost)
Constructs(position_cost, orientation_cost) ==
    /\ SetCost(Ones(6), 0, position_cost).status = "ok"
    /\ InitCost(position_cost, orientation_cost).status = "ok"

IdleBT ==
    /\ model = NoneV
    /\ bt = NoneV
    /\ bt_ret = NoneV
IdleCBF ==
    /\ cbf = NoneV
    /\ pos_world = NoneV
    /\ cbf_ret = NoneV

TaskInit ==
    /\ body \in BodyNames
    /\ \E pc \in CostArgs, oc \in CostArgs :
          /\ Constructs(pc, oc)
          /\ cost = InitCost(pc, oc).cost
    /\ error_in_body = Zeros(6)
    /\ lm_damping \in {0, 1}      \* the lm_damping argument
    /\ gain = 2                   \* Task.gain
    /\ transform_target_to_world = NoneV
    /\ cost_arg = NoneV
    /\ ret = Ret("init", "ok", <<>>)
    /\ set_target_called = FALSE

Init ==
    /\ TaskInit
    /\ robot = NoneV
    /\ IdleBT
    /\ IdleCBF

set_position_cost(position_cost) ==
    LET r == SetCost(cost, 0, position_cost)
    IN  /\ cost' = r.cost
        /\ cost_arg' = position_cost
        /\ ret' = Ret("set_position_cost", r.status, <<>>)
        /\ UNCHANGED <<body, error_in_body, lm_damping, gain,
                       transform_target_to_world, robot, set_target_called>>
        /\ UNCHANGED <<btVars, cbfVars>>

set_orientation_cost(orientation_cost) ==
    LET r == SetCost(cost, 3, orientation_cost)
    IN  /\ cost' = r.cost
        /\ cost_arg' = orientation_cost
        /\ ret' = Ret("set_orientation_cost", r.status, <<>>)
        /\ UNCHANGED <<body, error_in_body, lm_damping, gain,
                       transform_target_to_world, robot, set_target_called>>
        /\ UNCHANGED <<btVars, cbfVars>>

set_target(target) ==
    /\ transform_target_to_world' = target
    /\ set_target_called' = TRUE
    /\ ret' = Ret("set_target", "ok", <<>>)
    /\ UNCHANGED <<body, cost, error_in_body, lm_damping, gain, robot,
                   cost_arg>>
    /\ UNCHANGED <<btVars, cbfVars>>

\* The three compute calls share compute_error_in_body: it raises with no
\* target, and otherwise stores the error it returns.
ComputeCall(op, rb, val) ==
    /\ robot' = rb
    /\ IF TargetIsNone(transform_target_to_world)
       THEN /\ ret' = [op |-> op] @@ TargetNotSet(body)
            /\ UNCHANGED error_in_body
       ELSE /\ error_in_body' = ErrorInBody(transform_target_to_world, rb)
            /\ ret' = Ret(op, "ok", val)
    /\ UNCHANGED <<body, cost, lm_damping, gain, transform_target_to_world,
                   cost_arg, set_target_called>>
    /\ UNCHANGED <<btVars, cbfVars>>

compute_error_in_body(rb) ==
    ComputeCall("compute_error_in_body", rb,
                IF TargetIsNone(transform_target_to_world) THEN <<>>
                ELSE ErrorInBody(transform_target_to_world, rb))

compute_task_dynamics(rb) ==
    ComputeCall("compute_task_dynamics", rb,
                IF TargetIsNone(transform_target_to_world) THEN <<>>
                ELSE TaskDynamics(transform_target_to_world, gain, rb))

compute_qp_objective(rb) ==
    ComputeCall("compute_qp_objective", rb,
                IF TargetIsNone(transform_target_to_world) THEN <<>>
                ELSE QpObjective(cost, lm_damping, transform_target_to_world,
                                 gain, rb))

Next ==
    \/ \E a \in CostArgs : set_position_cost(a)
    \/ \E a \in CostArgs : set_orientation_cost(a)
    \/ \E t \in Targets : set_target(t)
    \/ \E rb \in SampleRobots : compute_error_in_body(rb)
    \/ \E rb \in SampleRobots : compute_task_dynamics(rb)
    \/ \E rb \in SampleRobots : compute_qp_objective(rb)

Spec == Init /\ [][Next]_vars

(***************************************************************************)
(* compute_qp_objective as a function of its inputs: any task with a       *)
(* target, any robot.                                                      *)
(***************************************************************************)
InitQP ==
    /\ body \in BodyNames
    /\ \E pc \in CostArgs, oc \in CostArgs :
          /\ Constructs(pc, oc)
          /\ cost = InitCost(pc, oc).cost
    /\ error_in_body = Zeros(6)
    /\ lm_damping \in LmDampings
    /\ gain \in Gains
    /\ transform_target_to_world \in Targets
    /\ cost_arg = NoneV
    /\ ret = Ret("set_target", "ok", <<>>)
    /\ set_target_called = TRUE
    /\ robot \in Robots
    /\ IdleBT
    /\ IdleCBF

NextQP == compute_qp_objective(robot)

SpecQP == InitQP /\ [][NextQP]_vars

(***************************************************************************)
(* Properties of BodyTask.                                                 *)
(***************************************************************************)
ComputeOps ==
    {"compute_error_in_body", "compute_task_dynamics", "compute_qp_objective"}
CostSetters == {"set_position_cost", "set_orientation_cost"}

HasNegativeEntry(arg) ==
    IF arg.kind = "float" THEN arg.val < 0
    ELSE \E k \in 1..Len(arg.val) : arg.val[k] < 0

\* C1: while set_target has never been called, every compute call fails
\* with TargetNotSet naming the body (no default error is returned); once
\* set_target has been called, no compute call raises TargetNotSet.
C1_TargetNotSetUntilSet ==
    ret.op \in ComputeOps =>
        IF set_target_called
        THEN ret.status = "ok"
        ELSE /\ ret.status = "TargetNotSet"
             /\ ret.val = <<"no target set for body", body>>
             /\ error_in_body = Zeros(6)

C1_Witness ==
    /\ ret.op = "compute_qp_objective"
    /\ ~set_target_called
    /\ ret.status = "TargetNotSet"

C9_FailureKeepsState ==
    [][ret'.status # "ok" =>
          UNCHANGED <<body, cost, error_in_body, lm_damping, gain,
                      transform_target_to_world>>]_vars

C9_Witness ==
    /\ ret.op \in CostSetters
    /\ ret.status = "ValueError"
    /\ cost # Ones(6)
    /\ transform_target_to_world # NoneV

(***************************************************************************)
(* The QP objective the contract defines, entry by entry, from the task's  *)
(* fields, the Jacobian J and the error e.                                 *)
(***************************************************************************)
WeightedError(c6, g, e) == [k \in 1..6 |-> c6[k] * g * e[k]]
SumSquares(v) == SumTo([k \in 1..Len(v) |-> v[k] * v[k]], Len(v))
ContractMu(c6, lm, g, e) == lm * SumSquares(WeightedError(c6, g, e))
ContractH(c6, lm, g, J, e, n) ==
    [i \in 1..n |-> [j \in 1..n |->
        SumTo([k \in 1..6 |-> (c6[k] * J[k][i]) * (c6[k] * J[k][j])], 6)
        + (IF i = j THEN ContractMu(c6, lm, g, e) ELSE 0)]]
Contractc(c6, g, J, e, n) ==
    [j \in 1..n |->
        0 - SumTo([k \in 1..6 |-> WeightedError(c6, g, e)[k] * (c6[k] * J[k][j])], 6)]

IsSymmetric(H) ==
    \A i \in 1..Len(H), j \in 1..Len(H) : H[i][j] = H[j][i]

QpReturned == ret.op = "compute_qp_objective" /\ ret.status = "ok"

\* C5: compute_qp_objective returns H = (W J)^T (W J) + mu I_n and
\* c = -(W gain e)^T (W J), with W = diag(cost), e the task error,
\* mu = lm_damping * (W gain e)^T (W gain e) and n = nv; H is symmetric.
C5_QpObjectiveFormula ==
    QpReturned =>
        /\ Len(ret.val[1]) = robot.nv
        /\ ret.val[1] = ContractH(cost, lm_damping, gain, robot.J,
                                  error_in_body, robot.nv)
        /\ ret.val[2] = Contractc(cost, gain, robot.J, error_in_body, robot.nv)
        /\ IsSymmetric(ret.val[1])

C5_Witness ==
    /\ QpReturned
    /\ ContractMu(cost, lm_damping, gain, error_in_body) > 0
    /\ \E i \in 1..robot.nv : ret.val[2][i] # 0
    /\ \E i \in 1..robot.nv, j \in 1..robot.nv : i # j /\ ret.val[1][i][j] # 0
    /\ cost[1] # cost[3]

(***************************************************************************)
(* Positive-semidefiniteness of a symmetric integer matrix: every principal*)
(* minor is >= 0.                                                          *)
(***************************************************************************)
RECURSIVE SetToSeq(_)
SetToSeq(S) ==
    IF S = {} THEN <<>>
    ELSE LET m == CHOOSE x \in S : \A y \in S : x <= y
         IN  <<m>> \o SetToSeq(S \ {m})

DropAt(sq, j) == [k \in 1..(Len(sq) - 1) |-> IF k < j THEN sq[k] ELSE sq[k + 1]]

RECURSIVE Det(_, _, _)
Det(M, rs, cs) ==
    IF Len(rs) = 0 THEN 1
    ELSE SumTo([j \in 1..Len(cs) |->
                  (IF j % 2 = 1 THEN 1 ELSE -1) * M[rs[1]][cs[j]]
                  * Det(M, Tail(rs), DropAt(cs, j))], Len(cs))

IsPSD(H) ==
    /\ IsSymmetric(H)
    /\ \A S \in SUBSET (1..Len(H)) :
          Det(H, SetToSeq(S), SetToSeq(S)) >= 0

PositiveDiagonal(H) == \A i \in 1..Len(H) : H[i][i] > 0

\* C6 as claimed: with every cost entry >= 0 and the target set, H is
\* positive-semidefinite, and its diagonal is strictly positive whenever the
\* task error is nonzero.
C6_Claimed ==
    QpReturned =>
        /\ IsPSD(ret.val[1])
        /\ (error_in_body # Zeros(6) => PositiveDiagonal(ret.val[1]))

\* C6 amended: with every cost entry >= 0, lm_damping >= 0 and the target
\* set, H is positive-semidefinite; its diagonal is strictly positive
\* whenever lm_damping > 0 and the weighted error W gain e is nonzero.
C6_PsdAndDiagonal ==
    (QpReturned /\ lm_damping >= 0) =>
        /\ IsPSD(ret.val[1])
        /\ (lm_damping > 0
              /\ WeightedError(cost, gain, error_in_body) # Zeros(6))
             => PositiveDiagonal(ret.val[1])

C6_Witness ==
    /\ QpReturned
    /\ lm_damping > 0
    /\ WeightedError(cost, gain, error_in_body) # Zeros(6)
    /\ \E i \in 1..robot.nv : \A k \in 1..6 : robot.J[k][i] = 0
    /\ PositiveDiagonal(ret.val[1])

(***************************************************************************)
(* BoundedTangent.  Position limits are integers in units of 1e-11, so the *)
(* minimum width 1e-10 is 10 units; the infinite limits of an unbounded    *)
(* joint lie beyond the 1e20 threshold.  Indices are 0-based as in the     *)
(* program; a sequence s of the model is read at s[i + 1].                 *)
(***************************************************************************)
MaxJoints == 2          \* joints of a model besides the universe joint
Epsilon == 10           \* 1e-10
InfThreshold == 1000000 \* 1e20: above every finite limit of a model
PosInf == 2 * InfThreshold
NegInf == 0 - PosInf
Wide == 100 * Epsilon

\* lower + 1e-10 in floating point: an infinite limit stays infinite
AddEps(x) == IF x = NegInf \/ x = PosInf THEN x ELSE x + Epsilon

\* (nq, nv) of a joint: revolute or prismatic, unbounded revolute, and a
\* composite of two prismatic joints
JointShapes == {<<1, 1>>, <<2, 1>>, <<2, 2>>}

\* <<lower, upper>> of one configuration coordinate: a wide interval, a
\* locked one (width 1e-11), one exactly 1e-10 wide, no limits, and a
\* finite upper limit with no lower limit
LimitPairs ==
    {<<0, Wide>>, <<0, 1>>, <<0, Epsilon>>, <<NegInf, PosInf>>, <<NegInf, Wide>>}

RECURSIVE SumShape(_, _, _)
SumShape(shapes, which, n) ==
    IF n = 0 THEN 0 ELSE shapes[n][which] + SumShape(shapes, which, n - 1)

\* model.joints: the universe joint (no coordinates, idx_q = idx_v = -1),
\* then one joint per shape, each after the other in q and in v
JointsOf(shapes) ==
    <<[idx_q |-> -1, nq |-> 0, idx_v |-> -1, nv |-> 0]>> \o
    [j \in 1..Len(shapes) |->
        [idx_q |-> SumShape(shapes, 1, j - 1), nq |-> shapes[j][1],
         idx_v |-> SumShape(shapes, 2, j - 1), nv |-> shapes[j][2]]]

ModelOf(shapes, limits) ==
    [joints |-> JointsOf(shapes),
     nq |-> SumShape(shapes, 1, Len(shapes)),
     nv |-> SumShape(shapes, 2, Len(shapes)),
     lowerPositionLimit |-> [k \in 1..Len(limits) |-> limits[k][1]],
     upperPositionLimit |-> [k \in 1..Len(limits) |-> limits[k][2]],
     velocityLimit |-> [k \in 1..SumShape(shapes, 2, Len(shapes)) |-> 100 + k]]

\* has_configuration_limit[k] (0-based k)
HasConfigurationLimit(m, k) ==
    /\ m.upperPositionLimit[k + 1] < InfThreshold
    /\ m.upperPositionLimit[k + 1] > AddEps(m.lowerPositionLimit[k + 1])

\* The condition of the joints comprehension
JointIsBounded(m, joint) ==
    /\ joint.idx_q >= 0
    /\ \A k \in joint.idx_q..(joint.idx_q + joint.nq - 1) :
          HasConfigurationLimit(m, k)

\* [joint for joint in model.joints if ...], on the first n joints
RECURSIVE BoundedJoints(_, _)
BoundedJoints(m, n) ==
    IF n = 0 THEN <<>>
    ELSE BoundedJoints(m, n - 1) \o
         (IF JointIsBounded(m, m.joints[n]) THEN <<m.joints[n]>> ELSE <<>>)

\* range(joint.idx_v, joint.idx_v + joint.nv)
JointRange(joint) == [k \in 1..joint.nv |-> joint.idx_v + k - 1]

\* indices.extend(range(...)) over the first n of the bounded joints
RECURSIVE ExtendIndices(_, _)
ExtendIndices(joints, n) ==
    IF n = 0 THEN <<>>
    ELSE ExtendIndices(joints, n - 1) \o JointRange(joints[n])

\* a[indices] for a non-empty integer index array
Gather(a, indices) == [k \in 1..Len(indices) |-> a[indices[k] + 1]]

\* BoundedTangent.__init__
BoundedTangentInit(m) ==
    LET joints == BoundedJoints(m, Len(m.joints))
        indices == ExtendIndices(joints, Len(joints))
        dim == Len(indices)
    IN  [dim |-> dim,
         indices |-> indices,
         joints |-> joints,
         projection_matrix |->
             IF dim > 0 THEN Gather(Eye(m.nv), indices) ELSE NoneV,
         velocity_limit |->
             IF Len(joints) > 0 THEN Gather(m.velocityLimit, indices) ELSE NoneV]

\* self.space.dim: the dimension of the tangent space the subspace is in
SpaceDim(m) == m.nv

\* BoundedTangent.project(v).  np.array([]) is an array of floats, which
\* numpy refuses as an index: with no bounded index the gather raises.
Project(b, m, v) ==
    IF Len(v) # SpaceDim(m) THEN [status |-> "AssertionError", val |-> <<>>]
    ELSE IF Len(b.indices) = 0 THEN [status |-> "IndexError", val |-> <<>>]
    ELSE [status |-> "ok", val |-> Gather(v, b.indices)]

\* Vectors handed to project: of the tangent dimension, one shorter, one
\* longer; entry i (0-based) is 10 + i
ProjectArgs(m) ==
    {[k \in 1..n |-> 9 + k] : n \in {m.nv - 1, m.nv, m.nv + 1} \cap Nat}

IdleTask ==
    /\ body = NoneV
    /\ cost = NoneV
    /\ error_in_body = NoneV
    /\ lm_damping = 0
    /\ gain = 0
    /\ transform_target_to_world = NoneV
    /\ robot = NoneV
    /\ cost_arg = NoneV
    /\ ret = NoneV
    /\ set_target_called = FALSE

InitBT ==
    /\ \E n \in 1..MaxJoints :
          \E shapes \in [1..n -> JointShapes] :
              \E limits \in [1..SumShape(shapes, 1, n) -> LimitPairs] :
                  model = ModelOf(shapes, limits)
    /\ bt = BoundedTangentInit(model)
    /\ bt_ret = [op |-> "init", status |-> "ok", v |-> <<>>, val |-> <<>>]
    /\ IdleTask
    /\ IdleCBF

project(v) ==
    /\ bt_ret' = [op |-> "project", v |-> v] @@ Project(bt, model, v)
    /\ UNCHANGED <<model, bt>>
    /\ UNCHANGED <<taskVars, cbfVars>>

NextBT == \E v \in ProjectArgs(model) : project(v)

SpecBT == InitBT /\ [][NextBT]_vars

(***************************************************************************)
(* Properties of BoundedTangent.                                           *)
(***************************************************************************)
IsFinite(x) == x # NegInf /\ x # PosInf

\* A joint all of whose configuration coordinates have two finite limits
\* more than the minimum width apart
BothFiniteAndWide(m, joint) ==
    \A k \in joint.idx_q..(joint.idx_q + joint.nq - 1) :
        /\ IsFinite(m.lowerPositionLimit[k + 1])
        /\ IsFinite(m.upperPositionLimit[k + 1])
        /\ m.upperPositionLimit[k + 1] - m.lowerPositionLimit[k + 1] > Epsilon

InSeq(x, sq) == \E k \in 1..Len(sq) : sq[k] = x

\* C3: a joint (with configuration coordinates) is in the joint list iff
\* every one of its coordinates has a finite lower and a finite upper limit
\* more than epsilon apart.
C3_JointListIffBothFinite ==
    bt # NoneV =>
        \A j \in 2..Len(model.joints) :
            InSeq(model.joints[j], bt.joints)
                <=> BothFiniteAndWide(model, model.joints[j])

\* The tangent indices of the joints the program finds bounded
BoundedIndexSet(m) ==
    UNION {{joint.idx_v + d : d \in 0..(joint.nv - 1)} :
             joint \in {m.joints[j] : j \in {i \in 1..Len(m.joints) :
                                               JointIsBounded(m, m.joints[i])}}}

\* The index list is the ranges of the bounded joints in joint order: its
\* entries are exactly their tangent indices, ascending, and dim counts them.
IndexListIsConcatenation ==
    bt # NoneV =>
        /\ {bt.indices[k] : k \in 1..Len(bt.indices)} = BoundedIndexSet(model)
        /\ \A k \in 1..(Len(bt.indices) - 1) : bt.indices[k] < bt.indices[k + 1]
        /\ bt.dim = Len(bt.indices)
        /\ bt.dim = Cardinality(BoundedIndexSet(model))

\* C4: the index list is the concatenation, in joint order, of the tangent
\* index ranges of the bounded joints, and project(v) on a vector of
\* tangent_dim entries returns the entries of v at those indices, in order.
C4_IndicesAndProject ==
    bt # NoneV =>
        /\ IndexListIsConcatenation
        /\ (bt_ret.op = "project" /\ Len(bt_ret.v) = model.nv) =>
              /\ bt_ret.status = "ok"
              /\ Len(bt_ret.val) = bt.dim
              /\ \A k \in 1..bt.dim : bt_ret.val[k] = 10 + bt.indices[k]

\* What holds of project: the claim of C4 on every model with at least one
\* bounded tangent index.
ProjectOnNonEmptyIndices ==
    (bt # NoneV /\ bt_ret.op = "project" /\ Len(bt_ret.v) = model.nv
        /\ bt.dim > 0) =>
        /\ bt_ret.status = "ok"
        /\ Len(bt_ret.val) = bt.dim
        /\ \A k \in 1..bt.dim : bt_ret.val[k] = 10 + bt.indices[k]

(***************************************************************************)
(* PositionCBF.  Positions are integers in units of 1 / Resolution.        *)
(***************************************************************************)
Resolution == 3     \* position units per unit of length
BoxSize == 2        \* p_max - p_min along each axis, in position units
CbfGain == 1        \* gain: float = 1.0

\* The names min and max inside compute_barrier and compute_jacobian are
\* not parameters there: they are Python's builtin functions, never None.
BuiltinMinIsNotNone == TRUE
BuiltinMaxIsNotNone == TRUE

\* PositionCBF.__init__
PositionCBFInit(mask, min, max, g) ==
    [mask |-> mask, p_min |-> min, p_max |-> max, gain |-> g,
     dim |-> (IF min # NoneV THEN 3 ELSE 0) + (IF max # NoneV THEN 3 ELSE 0)]

VecSub(u, v) == [k \in 1..Len(u) |-> u[k] - v[k]]

\* compute_barrier on the frame position pos: a vector minus None raises
ComputeBarrier(b, pos) ==
    IF BuiltinMinIsNotNone /\ b.p_min = NoneV
    THEN [status |-> "TypeError", val |-> <<>>]
    ELSE IF BuiltinMaxIsNotNone /\ b.p_max = NoneV
    THEN [status |-> "TypeError", val |-> <<>>]
    ELSE [status |-> "ok",
          val |-> (IF BuiltinMinIsNotNone THEN VecSub(pos, b.p_min) ELSE <<>>)
                  \o (IF BuiltinMaxIsNotNone THEN VecSub(b.p_max, pos) ELSE <<>>)]

\* np.hstack of a list of matrices of three rows
RECURSIVE HStack(_, _)
HStack(blocks, n) ==
    IF n = 0 THEN [r \in 1..3 |-> <<>>]
    ELSE [r \in 1..3 |-> HStack(blocks, n - 1)[r] \o blocks[n][r]]

\* compute_jacobian on pos_jac, the first three rows of the frame Jacobian
ComputeJacobian(b, pos_jac) ==
    LET jacobian ==
            (IF BuiltinMinIsNotNone THEN <<pos_jac>> ELSE <<>>)
            \o (IF BuiltinMaxIsNotNone THEN <<[r \in 1..3 |-> Neg(pos_jac[r])]>>
                ELSE <<>>)
    IN  [status |-> "ok", val |-> HStack(jacobian, Len(jacobian))]

\* d <= g * class_k_fn(h) for a displacement of d > 0 position units, with
\* class_k_fn = lambda h: 1 / (1 + np.linalg.norm(h)): in position units,
\* d * (Resolution + |h|) <= g * Resolution^2.
WithinClassKRate(d, gn, h) ==
    LET rhs == gn * Resolution * Resolution - d * Resolution
    IN  d = 0 \/ (rhs >= 0 /\ d * d * Dot(h, h) <= rhs * rhs)

\* The control-barrier inequality dh/dq dq >= -gain alpha(h), row by row,
\* for a displacement dp of the frame: the rows of dh/dq dq are dp and -dp.
SatisfiesCbfInequality(b, pos, dp) ==
    LET h == ComputeBarrier(b, pos).val
    IN  \A k \in 1..3 :
            WithinClassKRate(IF dp[k] < 0 THEN 0 - dp[k] ELSE dp[k], b.gain, h)

Axis == 0..BoxSize
Window == -1..(BoxSize + 1)
PMin == <<0, 0, 0>>
PMax == <<BoxSize, BoxSize, BoxSize>>
\* First three rows of the frame Jacobians handed to compute_jacobian
PosJacobians ==
    {[r \in 1..3 |-> [c \in 1..NV |-> k * (r - c)]] : k \in {0, 1}}

InitCBF ==
    /\ \E mn \in {NoneV, PMin}, mx \in {NoneV, PMax} :
          cbf = PositionCBFInit(NoneV, mn, mx, CbfGain)
    /\ pos_world \in {<<x, y, z>> : x \in Axis, y \in Axis, z \in Axis}
    /\ cbf_ret = [op |-> "init", status |-> "ok", val |-> <<>>]
    /\ IdleTask
    /\ IdleBT

compute_barrier ==
    /\ cbf_ret' = [op |-> "compute_barrier"] @@ ComputeBarrier(cbf, pos_world)
    /\ UNCHANGED <<cbf, pos_world>>
    /\ UNCHANGED <<taskVars, btVars>>

compute_jacobian(pos_jac) ==
    /\ cbf_ret' = [op |-> "compute_jacobian"] @@ ComputeJacobian(cbf, pos_jac)
    /\ UNCHANGED <<cbf, pos_world>>
    /\ UNCHANGED <<taskVars, btVars>>

\* One control cycle of a barrier with both sides set: the frame moves by a
\* displacement that satisfies the control-barrier inequality.
Step(dp) ==
    /\ cbf.p_min # NoneV /\ cbf.p_max # NoneV
    /\ SatisfiesCbfInequality(cbf, pos_world, dp)
    /\ \A k \in 1..3 : pos_world[k] + dp[k] \in Window
    /\ pos_world' = [k \in 1..3 |-> pos_world[k] + dp[k]]
    /\ cbf_ret' = [op |-> "step", status |-> "ok", val |-> <<>>]
    /\ UNCHANGED cbf
    /\ UNCHANGED <<taskVars, btVars>>

NextCBF ==
    \/ compute_barrier
    \/ \E pj \in PosJacobians : compute_jacobian(pj)
    \/ \E dp \in {<<x, y, z>> : x \in -2..2, y \in -2..2, z \in -2..2} : Step(dp)

SpecCBF == InitCBF /\ [][NextCBF]_vars

(***************************************************************************)
(* Properties of PositionCBF.                                              *)
(***************************************************************************)
\* The margin the contract defines: (p_world - p_min) if min is set, then
\* (p_max - p_world) if max is set
ContractBarrier(b, pos) ==
    (IF b.p_min # NoneV THEN VecSub(pos, b.p_min) ELSE <<>>)
    \o (IF b.p_max # NoneV THEN VecSub(b.p_max, pos) ELSE <<>>)

\* C7: with at least one of min and max set, compute_barrier succeeds and
\* returns the dim entries the contract defines, and compute_jacobian
\* returns one row per barrier entry.
C7_SidesIndependent ==
    (cbf # NoneV /\ cbf.dim > 0) =>
        /\ cbf_ret.op = "compute_barrier" =>
              /\ cbf_ret.status = "ok"
              /\ Len(cbf_ret.val) = cbf.dim
              /\ cbf_ret.val = ContractBarrier(cbf, pos_world)
        /\ cbf_ret.op = "compute_jacobian" =>
              /\ cbf_ret.status = "ok"
              /\ Len(cbf_ret.val) = cbf.dim

\* C7, the jacobian alone: one row per barrier entry.
C7_JacobianRows ==
    (cbf # NoneV /\ cbf.dim > 0 /\ cbf_ret.op = "compute_jacobian") =>
        Len(cbf_ret.val) = cbf.dim

\* C8: with min and max both set, from a position inside the safe set and
\* along steps that satisfy the control-barrier inequality, no entry of
\* the computed margin h is ever negative.
C8_BarrierInvariance ==
    (cbf # NoneV /\ cbf.p_min # NoneV /\ cbf.p_max # NoneV) =>
        \A k \in 1..6 : ComputeBarrier(cbf, pos_world).val[k] >= 0

====
